---- MODULE Spec2Model ----
(***************************************************************************)
(* Search Logger plugin for Obsidian: the HTTP ingestion handler           *)
(* (src/loggingServer.ts), the recent-query buffer, and the vault writes   *)
(* it performs, with the settings it reads (src/settings.ts, src/src/main.ts), *)
(* and the listener lifecycle: start at load, port change with rollback    *)
(* (settings tab) and unload.                                              *)
(*                                                                         *)
(* Strings that the code inspects (names, paths) are sequences of tokens;  *)
(* a document's content is the sequence of the text chunks that were       *)
(* concatenated into it.                                                   *)
(***************************************************************************)
EXTENDS Integers, Sequences, FiniteSets, TLC

\* ------------------------------------------------------------------ bounds
\* number of requests whose processing may overlap (Spec)
MaxReq == 2
\* number of requests processed one after another (SpecSeq)
MaxSeq == 4
\* number of edits of the port field (SpecBind)
MaxChanges == 2
\* number of calls of onunload (SpecBind)
MaxUnloads == 2
\* number of requests sent to the listener (SpecSwap, SpecLive)
MaxBindReq == 2
\* number of edits of the name field and the prepend toggle (SpecLive)
MaxEdits == 2
\* number of calls of validateLogFileName (SpecName)
MaxNameChecks == 2

\* ------------------------------------------------------- program constants
MAX_RECENT == 3
MIN_PORT == 1024
MAX_PORT == 65535
\* DEFAULT_SETTINGS.port
DEFAULT_PORT == 27123

SEARCH_LOG == <<"SearchLog">>

\* ------------------------------------------------------------ input domains
Queries == {"cats", "dogs", "birds", "fish"}
Urls == {"https://x/?q"}
Timestamps == {"1700000000000"}
Methods == {"OPTIONS", "POST", "GET"}
ReqUrls == {"/log", "/other"}

\* the value of a destructured field that the parsed JSON does not carry
Undefined == "undefined"

\* Request bodies.  text = "malformed": not JSON ("{");  "null": the JSON
\* literal null;  "object": a JSON object carrying the fields named in `present`.
FieldNames == {"query", "url", "timestamp"}
Events == [query : Queries, url : Urls, timestamp : Timestamps]
NoFields == [query |-> "", url |-> "", timestamp |-> ""]
EventBodies == {[text |-> "object", present |-> FieldNames, fields |-> e] : e \in Events}
EmptyObjectBody == [text |-> "object", present |-> {}, fields |-> NoFields]
MalformedBody == [text |-> "malformed", present |-> {}, fields |-> NoFields]
NullBody == [text |-> "null", present |-> {}, fields |-> NoFields]
NoBody == [text |-> "none", present |-> {}, fields |-> NoFields]
Bodies == EventBodies \cup {EmptyObjectBody, MalformedBody, NullBody}

\* text already in the log note before the plugin writes to it
PriorContent == << <<"prior text\n">> >>

\* vault paths of the model
LogPath == <<"SearchLog", ".md">>
DirPath == <<"dir">>
DirLogPath == <<"dir", "/", "SearchLog", ".md">>
\* the paths that the names typed into the settings tab resolve to
HiddenPath == <<".md">>
DirHiddenPath == <<"dir", "/", ".md">>
NotesPath == <<"Notes", ".md">>
FolderMdPath == <<"folder", ".md">>
Paths == {LogPath, DirPath, DirLogPath, HiddenPath, DirHiddenPath, NotesPath,
          FolderMdPath}
UserPrefs == {SEARCH_LOG, <<"dir", "/", "SearchLog">>}

Max(a, b) == IF a > b THEN a ELSE b
Reqs == 1..Max(MaxReq, Max(MaxSeq, MaxBindReq))
ConcReqs == 1..MaxReq
SeqReqs == 1..MaxSeq

VARIABLES
  recentQueries,   \* SearchLoggerPlugin.recentQueries (ctx.recentQueries)
  settings,        \* SearchLoggerPlugin.settings
  vault,           \* app.vault: path -> [kind, content]
  reqs,            \* one record per request: handler position, locals, response
  plugin,          \* position of onload / onunload
  server,          \* SearchLoggerPlugin.server: 0 (null) or the index of a server
  servers,         \* the http.Server objects created so far
  changes,         \* one record per call of the port field's onChange
  occupied,        \* ports bound by other processes
  saved,           \* the port in the plugin's saved data
  ui,              \* notices shown, texts of portErrorEl and fileErrorEl, tab registered
  portCheck,       \* the calls of validatePort: argument and result
  unhandled,       \* error events without listener, rejections without handler
  unloads,         \* the calls of onunload: the server reference they found
  edits            \* the calls of the name field's and the prepend toggle's onChange

handlerVars == <<recentQueries, vault, reqs>>
bindVars == <<plugin, server, servers, changes, occupied, saved, ui, portCheck,
              unhandled, unloads, edits>>
vars == <<recentQueries, settings, vault, reqs, plugin, server, servers, changes,
          occupied, saved, ui, portCheck, unhandled, unloads, edits>>

\* ------------------------------------------------------------------- numbers
\* a JavaScript number: the integer v, v + 1/2, or NaN
Num(v) == [kind |-> "int", v |-> v]
Half(v) == [kind |-> "frac", v |-> v]
NaN == [kind |-> "nan", v |-> 0]

\* Number.isInteger(x)
IsInteger(x) == x.kind = "int"
\* x < n and x > n for an integer n (false for NaN)
Less(x, n) == x.kind # "nan" /\ x.v < n
Greater(x, n) == (x.kind = "int" /\ x.v > n) \/ (x.kind = "frac" /\ x.v >= n)

Null == "null"

\* --------------------------------------------------------------- settings.ts
RECURSIVE TrimStart(_)
TrimStart(s) ==
  IF Len(s) > 0 /\ Head(s) = " " THEN TrimStart(Tail(s)) ELSE s

RECURSIVE TrimEnd(_)
TrimEnd(s) ==
  IF Len(s) > 0 /\ s[Len(s)] = " " THEN TrimEnd(SubSeq(s, 1, Len(s) - 1)) ELSE s

Trim(s) == TrimEnd(TrimStart(s))

ToLowerCase(tok) == IF tok = ".MD" THEN ".md" ELSE tok

EndsWithMd(s) == Len(s) > 0 /\ ToLowerCase(s[Len(s)]) = ".md"

getLogFileNameFrom(input) ==
  LET trimmed == Trim(input)
  IN IF EndsWithMd(trimmed) THEN trimmed ELSE Append(trimmed, ".md")

\* main.ts: get logFileName()
logFileName == getLogFileNameFrom(settings.logFileUserPref)

\* mutant: the handler keeps the mode it was created with
getPrependMode_Captured == TRUE

getPrependMode == settings.prependMode

\* main.ts: set logFileName(name): the value stored in logFileUserPref
setLogFileName(name) ==
  LET trimmed == Trim(name)
  IN IF EndsWithMd(trimmed) THEN SubSeq(trimmed, 1, Len(trimmed) - 1) ELSE trimmed

\* mutant: the upper limit is excluded
validatePort_ExcludesMax(port) ==
  IF ~IsInteger(port) THEN "settings.error.port_is_int"
  ELSE IF Less(port, MIN_PORT) \/ Greater(port, MAX_PORT - 1)
    THEN "settings.error.port_out_range"
  ELSE Null

validatePort(port) ==
  IF ~IsInteger(port) THEN "settings.error.port_is_int"
  ELSE IF Less(port, MIN_PORT) \/ Greater(port, MAX_PORT)
    THEN "settings.error.port_out_range"
  ELSE Null

\* ------------------------------------------------------------------ app.vault
Absent == [kind |-> "absent", content |-> <<>>]
Folder == [kind |-> "folder", content |-> <<>>]
File(c) == [kind |-> "file", content |-> c]

getAbstractFileByPath(path) ==
  IF path \in DOMAIN vault THEN vault[path] ELSE Absent

RECURSIVE LastSlash(_)
LastSlash(p) ==
  IF Len(p) = 0 THEN 0
  ELSE IF p[Len(p)] = "/" THEN Len(p)
  ELSE LastSlash(SubSeq(p, 1, Len(p) - 1))

HasParent(path) == LastSlash(path) > 0
ParentPath(path) == SubSeq(path, 1, LastSlash(path) - 1)

\* vault.create(path, data) throws when the path is taken or its folder is missing
CanCreate(path) ==
  /\ path \in DOMAIN vault
  /\ vault[path].kind = "absent"
  /\ HasParent(path) => getAbstractFileByPath(ParentPath(path)).kind = "folder"

\* vault.read / modify / append throw when the file is no longer there
IsFile(path) == getAbstractFileByPath(path).kind = "file"

\* ------------------------------------------------------------ loggingServer.ts
\* JSON.parse(body) followed by the destructuring { query, url, timestamp }
ParseThrows(body) == body.text \in {"malformed", "null"}

Field(body, name) ==
  IF name \in body.present THEN body.fields[name] ELSE Undefined

\* the template literal of the log line: "- ", timestamp, tab and dash, query,
\* the link markup around url, newline
Line(body) ==
  <<"- ", Field(body, "timestamp"), "\t-- ", Field(body, "query"),
    " [->](", Field(body, "url"), ")\n">>

\* mutant: the search starts at the second entry
Includes_SkipsFirst(buf, q) == \E i \in 2..Len(buf) : buf[i] = q

Includes(buf, q) == \E i \in 1..Len(buf) : buf[i] = q

\* mutant: shifts as soon as the buffer reaches MAX_RECENT
Record_ShiftsEarly(buf, q) ==
  LET pushed == Append(buf, q)
  IN IF Len(pushed) >= MAX_RECENT THEN Tail(pushed) ELSE pushed

\* mutant: a full buffer drops the entry just pushed
Record_EvictsNewest(buf, q) ==
  LET pushed == Append(buf, q)
  IN IF Len(pushed) > MAX_RECENT THEN SubSeq(pushed, 1, MAX_RECENT) ELSE pushed

\* recentQueries.push(query); if (length > MAX_RECENT) recentQueries.shift()
Record(buf, q) ==
  LET pushed == Append(buf, q)
  IN IF Len(pushed) > MAX_RECENT THEN Tail(pushed) ELSE pushed

AllowOrigin == {"Access-Control-Allow-Origin: *"}
CorsPreflight ==
  {"Access-Control-Allow-Origin: *",
   "Access-Control-Allow-Methods: POST, OPTIONS",
   "Access-Control-Allow-Headers: Content-Type"}

IdleReq ==
  [pc |-> "idle", method |-> "", url |-> "", body |-> NoBody,
   query |-> "", line |-> <<>>, effective |-> <<>>, af |-> "",
   newContent |-> <<>>,
   status |-> 0, headers |-> {}, via |-> "", ends |-> 0,
   ops |-> <<>>, warned |-> FALSE, seen |-> <<>>, threw |-> ""]

\* mutant: the answer is ended at the call site and again by the final res.end()
Respond_EndsTwice(req, code, hdrs, site) ==
  [req EXCEPT !.pc = "done", !.status = code, !.headers = hdrs,
              !.via = site, !.ends = @ + 2]

\* res.writeHead(code, hdrs) at the call site `site`, then res.end()
Respond(req, code, hdrs, site) ==
  [req EXCEPT !.pc = "done", !.status = code, !.headers = hdrs,
              !.via = site, !.ends = @ + 1]

\* mutant: the answer is sent when the vault operation is issued
Await_RespondsFirst(req, op) ==
  [req EXCEPT !.pc = op, !.ops = Append(@, op), !.status = 200, !.ends = @ + 1]

\* a vault operation is issued and the handler awaits it
Await(req, op) == [req EXCEPT !.pc = op, !.ops = Append(@, op)]

\* mutant: anything that exists is written to as a note
WriteOp_NoFolderCheck(af) ==
  IF af.kind = "absent" THEN "create"
  ELSE IF getPrependMode THEN "read" ELSE "append"

\* the branch taken on af: !af, af instanceof TFile (prepend or append), else
WriteOp(af) ==
  IF af.kind = "absent" THEN "create"
  ELSE IF af.kind = "file" THEN (IF getPrependMode THEN "read" ELSE "append")
  ELSE "skip"

InFlight == {r \in Reqs : reqs[r].pc \notin {"idle", "done"}}

\* ------------------------------------------------------------ http.Server
\* state: Unbound, Binding (listen called, not settled) or Bound; port: the
\* argument of the last listen; lastError: the error event of the last listen
Unbound(port) ==
  [state |-> "Unbound", port |-> port, onError |-> FALSE, callback |-> "none",
   lastError |-> ""]

\* a plugin whose listener was started on the default port: the state the
\* handler is exercised in
Listening ==
  /\ plugin = "loaded"
  /\ server = 1
  /\ servers = <<[Unbound(Num(DEFAULT_PORT)) EXCEPT !.state = "Bound"]>>
  /\ changes = <<>>
  /\ occupied = {}
  /\ saved = Num(DEFAULT_PORT)
  /\ ui = [notices |-> {}, portErrorEl |-> "", fileErrorEl |-> "",
           settingTab |-> TRUE]
  /\ portCheck = <<>>
  /\ unhandled = {}
  /\ unloads = <<>>
  /\ edits = <<>>

TypeOK ==
  /\ recentQueries \in Seq(Queries \cup {Undefined})
  /\ settings.prependMode \in BOOLEAN
  /\ \A r \in Reqs : reqs[r].pc \in
       {"idle", "reading", "create", "read", "modify", "append", "done"}

Init ==
  /\ recentQueries = <<>>
  /\ \E pref \in UserPrefs, prepend \in BOOLEAN :
       settings = [logFileUserPref |-> pref, port |-> Num(DEFAULT_PORT),
                   prependMode |-> prepend]
  /\ Listening
  /\ \E target \in {Absent, Folder, File(<<>>), File(PriorContent)},
        dir \in {Absent, Folder} :
       /\ vault = [p \in Paths |->
                     IF p = logFileName THEN target
                     ELSE IF p = DirPath THEN dir
                     ELSE Absent]
       /\ settings.logFileUserPref = SEARCH_LOG => dir = Absent
       /\ (HasParent(logFileName) /\ dir = Absent) => target = Absent
  /\ reqs = [r \in Reqs |-> IdleReq]

\* ------------------------------------------------------------------- handler
\* the request listener is called for the next request of the connection log
Arrives(r) ==
  /\ reqs[r].pc = "idle"
  /\ \A p \in Reqs : p < r => reqs[p].pc # "idle"

\* mutant: the preflight answer falls through to the 404 branch
HandleOptions_NotFound(r) ==
  /\ Arrives(r)
  /\ \E url \in ReqUrls :
       reqs' = [reqs EXCEPT ![r] =
         Respond([@ EXCEPT !.method = "OPTIONS", !.url = url],
                 404, AllowOrigin, "notfound")]
  /\ UNCHANGED <<recentQueries, settings, vault>>

\* if (req.method === "OPTIONS") { writeHead(200, preflight headers); return res.end() }
HandleOptions(r) ==
  /\ Arrives(r)
  /\ \E url \in ReqUrls :
       reqs' = [reqs EXCEPT ![r] =
         Respond([@ EXCEPT !.method = "OPTIONS", !.url = url],
                 200, CorsPreflight, "options")]
  /\ UNCHANGED <<recentQueries, settings, vault>>

\* if (req.method === "POST" && req.url === "/log"): the data and end
\* listeners are registered and the body is accumulated
PostLog(r, body) ==
  /\ Arrives(r)
  /\ reqs' = [reqs EXCEPT ![r] =
       [@ EXCEPT !.method = "POST", !.url = "/log", !.body = body,
                 !.pc = "reading"]]
  /\ UNCHANGED <<recentQueries, settings, vault>>

HandlePostLog(r) == \E body \in Bodies : PostLog(r, body)

\* the browser extension posts a well-formed event
HandlePostEvent(r) == \E body \in EventBodies : PostLog(r, body)

\* else { writeHead(404); res.end() }
HandleNotFound(r) ==
  /\ Arrives(r)
  /\ \E method \in Methods \ {"OPTIONS"}, url \in ReqUrls :
       /\ ~(method = "POST" /\ url = "/log")
       /\ reqs' = [reqs EXCEPT ![r] =
            Respond([@ EXCEPT !.method = method, !.url = url],
                    404, AllowOrigin, "notfound")]
  /\ UNCHANGED <<recentQueries, settings, vault>>

\* mutant: the 400 answer is written without headers
Catch_NoHeaders(req) == Respond(req, 400, {}, "catch")

\* catch (e) { console.error; writeHead(400) }  res.end()
Catch(req) == Respond(req, 400, AllowOrigin, "catch")

\* a vault operation rejects: the await throws into the catch block
\* (threw records which operation it was)
Throws(req) == Catch([req EXCEPT !.threw = req.pc])

\* writeHead(200), res.end(): the tail of the try block
Accepted(req) == Respond(req, 200, AllowOrigin, "ok")

\* mutant: the query is recorded before the vault operation is awaited
OnEnd_RecordsFirst(r) ==
  LET req == reqs[r]
      body == req.body
      query == Field(body, "query")
      effective == logFileName
      line == Line(body)
      af == getAbstractFileByPath(effective)
      loc == [req EXCEPT !.query = query, !.line = line, !.effective = effective,
                         !.af = af.kind, !.seen = af.content]
  IN
  /\ req.pc = "reading"
  /\ IF ParseThrows(body)
        THEN /\ reqs' = [reqs EXCEPT ![r] = Catch(req)]
             /\ UNCHANGED recentQueries
     ELSE IF Includes(recentQueries, query)
        THEN /\ reqs' = [reqs EXCEPT ![r] =
                  Respond([req EXCEPT !.query = query], 200, AllowOrigin, "duplicate")]
             /\ UNCHANGED recentQueries
     ELSE IF WriteOp(af) = "skip"
        THEN /\ reqs' = [reqs EXCEPT ![r] = Accepted([loc EXCEPT !.warned = TRUE])]
             /\ recentQueries' = Record(recentQueries, query)
     ELSE /\ reqs' = [reqs EXCEPT ![r] = Await(loc, WriteOp(af))]
          /\ recentQueries' = Record(recentQueries, query)
  /\ UNCHANGED <<settings, vault>>

\* mutant: an event dropped on a folder is not recorded in the buffer
OnEnd_DropNotRecorded(r) ==
  LET req == reqs[r]
      body == req.body
      query == Field(body, "query")
      effective == logFileName
      line == Line(body)
      af == getAbstractFileByPath(effective)
      loc == [req EXCEPT !.query = query, !.line = line, !.effective = effective,
                         !.af = af.kind, !.seen = af.content]
  IN
  /\ req.pc = "reading"
  /\ IF ParseThrows(body)
        THEN /\ reqs' = [reqs EXCEPT ![r] = Catch(req)]
             /\ UNCHANGED recentQueries
     ELSE IF Includes(recentQueries, query)
        THEN /\ reqs' = [reqs EXCEPT ![r] =
                  Respond([req EXCEPT !.query = query], 200, AllowOrigin, "duplicate")]
             /\ UNCHANGED recentQueries
     ELSE IF WriteOp(af) = "skip"
        THEN /\ reqs' = [reqs EXCEPT ![r] = Accepted([loc EXCEPT !.warned = TRUE])]
             /\ UNCHANGED recentQueries
     ELSE /\ reqs' = [reqs EXCEPT ![r] = Await(loc, WriteOp(af))]
          /\ UNCHANGED recentQueries
  /\ UNCHANGED <<settings, vault>>

\* req.on("end", async () => ...): the callback up to its first await.
\* af and seen keep what getAbstractFileByPath returned (kind, content then).
OnEnd(r) ==
  LET req == reqs[r]
      body == req.body
      query == Field(body, "query")
      effective == logFileName
      line == Line(body)
      af == getAbstractFileByPath(effective)
      loc == [req EXCEPT !.query = query, !.line = line, !.effective = effective,
                         !.af = af.kind, !.seen = af.content]
  IN
  /\ req.pc = "reading"
  /\ IF ParseThrows(body)
        THEN /\ reqs' = [reqs EXCEPT ![r] = Catch(req)]
             /\ UNCHANGED recentQueries
     ELSE IF Includes(recentQueries, query)
        THEN /\ reqs' = [reqs EXCEPT ![r] =
                  Respond([req EXCEPT !.query = query], 200, AllowOrigin, "duplicate")]
             /\ UNCHANGED recentQueries
     ELSE IF WriteOp(af) = "skip"
        THEN /\ reqs' = [reqs EXCEPT ![r] = Accepted([loc EXCEPT !.warned = TRUE])]
             /\ recentQueries' = Record(recentQueries, query)
     ELSE /\ reqs' = [reqs EXCEPT ![r] = Await(loc, WriteOp(af))]
          /\ UNCHANGED recentQueries
  /\ UNCHANGED <<settings, vault>>

\* mutant: the note is created empty, as initLogFile does
CreateSettles_Empty(r) ==
  LET req == reqs[r] IN
  /\ req.pc = "create"
  /\ \E io \in BOOLEAN :
       IF io /\ CanCreate(req.effective)
         THEN /\ vault' = [vault EXCEPT ![req.effective] = File(<<>>)]
              /\ recentQueries' = Record(recentQueries, req.query)
              /\ reqs' = [reqs EXCEPT ![r] = Accepted(req)]
         ELSE /\ reqs' = [reqs EXCEPT ![r] = Throws(req)]
              /\ UNCHANGED <<recentQueries, vault>>
  /\ UNCHANGED settings

\* await app.vault.create(effective, line) settles
CreateSettles(r) ==
  LET req == reqs[r] IN
  /\ req.pc = "create"
  /\ \E io \in BOOLEAN :
       IF io /\ CanCreate(req.effective)
         THEN /\ vault' = [vault EXCEPT ![req.effective] = File(<<req.line>>)]
              /\ recentQueries' = Record(recentQueries, req.query)
              /\ reqs' = [reqs EXCEPT ![r] = Accepted(req)]
         ELSE /\ reqs' = [reqs EXCEPT ![r] = Throws(req)]
              /\ UNCHANGED <<recentQueries, vault>>
  /\ UNCHANGED settings

\* mutant: newContent = oldContent + line
ReadSettles_Appends(r) ==
  LET req == reqs[r] IN
  /\ req.pc = "read"
  /\ \E io \in BOOLEAN :
       IF io /\ IsFile(req.effective)
         THEN LET oldContent == vault[req.effective].content
                  newContent == oldContent \o <<req.line>>
              IN reqs' = [reqs EXCEPT ![r] =
                   Await([req EXCEPT !.newContent = newContent], "modify")]
         ELSE reqs' = [reqs EXCEPT ![r] = Throws(req)]
  /\ UNCHANGED <<recentQueries, settings, vault>>

\* const oldContent = await app.vault.read(af) settles;
\* newContent = line + oldContent; app.vault.modify(af, newContent) is issued
ReadSettles(r) ==
  LET req == reqs[r] IN
  /\ req.pc = "read"
  /\ \E io \in BOOLEAN :
       IF io /\ IsFile(req.effective)
         THEN LET oldContent == vault[req.effective].content
                  newContent == <<req.line>> \o oldContent
              IN reqs' = [reqs EXCEPT ![r] =
                   Await([req EXCEPT !.newContent = newContent], "modify")]
         ELSE reqs' = [reqs EXCEPT ![r] = Throws(req)]
  /\ UNCHANGED <<recentQueries, settings, vault>>

\* mutant: the line is put in front of the content the note has now
ModifySettles_Merges(r) ==
  LET req == reqs[r] IN
  /\ req.pc = "modify"
  /\ \E io \in BOOLEAN :
       IF io /\ IsFile(req.effective)
         THEN /\ vault' = [vault EXCEPT ![req.effective] =
                             File(<<req.line>> \o @.content)]
              /\ recentQueries' = Record(recentQueries, req.query)
              /\ reqs' = [reqs EXCEPT ![r] = Accepted(req)]
         ELSE /\ reqs' = [reqs EXCEPT ![r] = Throws(req)]
              /\ UNCHANGED <<recentQueries, vault>>
  /\ UNCHANGED settings

\* await app.vault.modify(af, newContent) settles
ModifySettles(r) ==
  LET req == reqs[r] IN
  /\ req.pc = "modify"
  /\ \E io \in BOOLEAN :
       IF io /\ IsFile(req.effective)
         THEN /\ vault' = [vault EXCEPT ![req.effective] = File(req.newContent)]
              /\ recentQueries' = Record(recentQueries, req.query)
              /\ reqs' = [reqs EXCEPT ![r] = Accepted(req)]
         ELSE /\ reqs' = [reqs EXCEPT ![r] = Throws(req)]
              /\ UNCHANGED <<recentQueries, vault>>
  /\ UNCHANGED settings

\* mutant: the line replaces the content of the note
AppendSettles_Overwrites(r) ==
  LET req == reqs[r] IN
  /\ req.pc = "append"
  /\ \E io \in BOOLEAN :
       IF io /\ IsFile(req.effective)
         THEN /\ vault' = [vault EXCEPT ![req.effective] = File(<<req.line>>)]
              /\ recentQueries' = Record(recentQueries, req.query)
              /\ reqs' = [reqs EXCEPT ![r] = Accepted(req)]
         ELSE /\ reqs' = [reqs EXCEPT ![r] = Throws(req)]
              /\ UNCHANGED <<recentQueries, vault>>
  /\ UNCHANGED settings

\* await app.vault.append(af, line) settles
AppendSettles(r) ==
  LET req == reqs[r] IN
  /\ req.pc = "append"
  /\ \E io \in BOOLEAN :
       IF io /\ IsFile(req.effective)
         THEN /\ vault' = [vault EXCEPT ![req.effective] =
                             File(@.content \o <<req.line>>)]
              /\ recentQueries' = Record(recentQueries, req.query)
              /\ reqs' = [reqs EXCEPT ![r] = Accepted(req)]
         ELSE /\ reqs' = [reqs EXCEPT ![r] = Throws(req)]
              /\ UNCHANGED <<recentQueries, vault>>
  /\ UNCHANGED settings

Step(r) ==
  \/ OnEnd(r)
  \/ CreateSettles(r)
  \/ ReadSettles(r)
  \/ ModifySettles(r)
  \/ AppendSettles(r)

\* requests overlap: a request may arrive while others await the vault
Next ==
  /\ \E r \in ConcReqs :
       \/ HandleOptions(r)
       \/ HandlePostLog(r)
       \/ HandleNotFound(r)
       \/ Step(r)
  /\ UNCHANGED bindVars

Spec == Init /\ [][Next]_vars

\* the same handler after earlier searches have filled recentQueries
InitFull ==
  /\ recentQueries \in {<<"birds", "fish">>, <<"birds", "fish", "dogs">>}
  /\ \E prepend \in BOOLEAN :
       settings = [logFileUserPref |-> SEARCH_LOG, port |-> Num(DEFAULT_PORT),
                   prependMode |-> prepend]
  /\ Listening
  /\ \E target \in {Absent, File(PriorContent)} :
       vault = [p \in Paths |-> IF p = LogPath THEN target ELSE Absent]
  /\ reqs = [r \in Reqs |-> IdleReq]

SpecFull == InitFull /\ [][Next]_vars

\* one client: a request is sent after the previous one was answered
NextSeq ==
  /\ \E r \in SeqReqs :
       \/ InFlight = {} /\ HandlePostEvent(r)
       \/ Step(r)
  /\ UNCHANGED bindVars

SpecSeq == Init /\ [][NextSeq]_vars

\* ============================================================ listener lifecycle
\* mutant: a name that denotes a folder is accepted
validateLogFileName_NoFolderCheck(name) ==
  LET trimmed == Trim(name)
      parent == getAbstractFileByPath(ParentPath(trimmed))
  IN IF trimmed = <<>> THEN "settings.error.note.name.rule1"
     ELSE IF trimmed[Len(trimmed)] = "/" THEN "settings.error.note.name.rule2"
     ELSE IF HasParent(trimmed) /\ parent.kind = "absent"
       THEN "settings.error.note.folder.rule1"
     ELSE IF HasParent(trimmed) /\ parent.kind # "folder"
       THEN "settings.error.note.folder.rule2"
     ELSE Null

\* main.ts: validateLogFileName(name)
validateLogFileName(name) ==
  LET trimmed == Trim(name)
      parent == getAbstractFileByPath(ParentPath(trimmed))
  IN IF trimmed = <<>> THEN "settings.error.note.name.rule1"
     ELSE IF trimmed[Len(trimmed)] = "/" THEN "settings.error.note.name.rule2"
     ELSE IF HasParent(trimmed) /\ parent.kind = "absent"
       THEN "settings.error.note.folder.rule1"
     ELSE IF HasParent(trimmed) /\ parent.kind # "folder"
       THEN "settings.error.note.folder.rule2"
     ELSE IF getAbstractFileByPath(trimmed).kind = "folder"
       THEN "settings.error.note.name.rule3"
     ELSE Null

\* the text of the port field: leading white space, the digits parseInt reads
\* (none when the text does not start with a number), the rest of the text
Raw(lead, digits, rest) == [lead |-> lead, digits |-> digits, rest |-> rest]

\* rawValue.trim()
TrimRaw(raw) ==
  [raw EXCEPT !.lead = "", !.rest = IF @ = " " THEN "" ELSE @]

\* parseInt(trimmed, 10)
parseInt(text) == IF text.digits = <<>> THEN NaN ELSE Num(text.digits[1])

\* values of the port field typed by the user
RawPorts ==
  {Raw("", <<8080>>, ""), Raw(" ", <<27123>>, " "), Raw("", <<>>, "abc"),
   Raw("", <<80>>, "px")}

\* values of port found in the saved data at load
StoredPorts == {Num(DEFAULT_PORT), Num(80), Num(70000), Half(8080)}

\* ports another process may hold
OtherPorts == {DEFAULT_PORT, 8080}

\* server.listen(port) throws ERR_SOCKET_BAD_PORT at the call
ListenThrows(port) == ~IsInteger(port) \/ Less(port, 0) \/ Greater(port, MAX_PORT)

InUse(port) ==
  \/ port.v \in occupied
  \/ \E s \in DOMAIN servers : servers[s].state = "Bound" /\ servers[s].port = port

\* how a pending listen ends: "ok" (listening event) or the code of the error event
ListenOutcomes(port) == IF InUse(port) THEN {"EADDRINUSE"} ELSE {"ok", "EACCES"}

\* mutant: close() leaves the listening handle open
Close_KeepsHandle(srv) == srv

\* server.close(): the listening handle is released; a listen that has not
\* settled yet is given up, its listening event is never emitted
Close(srv) ==
  IF srv.state \in {"Bound", "Binding"} THEN [srv EXCEPT !.state = "Unbound"] ELSE srv

\* server.listen(port, callback) / once("error") + listen(port)
Listen(srv, port, onError, callback) ==
  [state |-> "Binding", port |-> port, onError |-> onError, callback |-> callback,
   lastError |-> ""]

\* the error event of a pending listen
Fails(srv, e) == [srv EXCEPT !.state = "Unbound", !.lastError = e]

Binding == {s \in DOMAIN servers : servers[s].state = "Binding"}
BoundServers == {s \in DOMAIN servers : servers[s].state = "Bound"}

\* onload, from "Validate port" to addCommand (main.ts:66-103); n: notices so far
StartListener(n) ==
  LET port == settings.port
      initialPortError == validatePort(port)
      s == Len(servers) + 1
  IN /\ portCheck' = Append(portCheck, [port |-> port, result |-> initialPortError])
     /\ ui' = [ui EXCEPT !.notices = IF initialPortError # Null
                                       THEN n \cup {initialPortError} ELSE n,
                         !.settingTab = TRUE]
     /\ server' = s
     /\ IF ListenThrows(port)
          THEN /\ servers' = Append(servers, Unbound(port))
               /\ unhandled' = unhandled \cup {"onload: ERR_SOCKET_BAD_PORT"}
               /\ plugin' = "aborted"
          ELSE /\ servers' = Append(servers, Listen(Unbound(port), port, FALSE, "log"))
               /\ plugin' = "loaded"
               /\ UNCHANGED unhandled

\* the onLayoutReady callback of onload up to its first pending await
OnLayoutReady ==
  LET initialFileError == validateLogFileName(logFileName) IN
  /\ plugin = "enabled"
  /\ IF initialFileError # Null
       THEN StartListener(ui.notices \cup {initialFileError})
     ELSE IF getAbstractFileByPath(logFileName).kind = "absent"
       THEN /\ plugin' = "initLogFile"
            /\ UNCHANGED <<server, servers, ui, portCheck, unhandled>>
     ELSE StartListener(ui.notices)
  /\ UNCHANGED <<recentQueries, settings, vault, reqs, changes, occupied, saved, unloads, edits>>

\* initLogFile: await this.app.vault.create(path, "") settles
InitLogFileSettles ==
  /\ plugin = "initLogFile"
  /\ \E io \in BOOLEAN :
       IF io /\ CanCreate(logFileName)
         THEN /\ vault' = [vault EXCEPT ![logFileName] = File(<<>>)]
              /\ StartListener(ui.notices \cup {"notice.newlog.saved"})
         ELSE /\ plugin' = "aborted"
              /\ unhandled' = unhandled \cup {"onload: initLogFile"}
              /\ UNCHANGED <<vault, server, servers, ui, portCheck>>
  /\ UNCHANGED <<recentQueries, settings, reqs, changes, occupied, saved, unloads, edits>>

\* the listen of onload settles: callback (console.log) or an error event
\* that has no listener
StartListenSettles(s) ==
  /\ s \in Binding /\ servers[s].callback = "log"
  /\ \E e \in ListenOutcomes(servers[s].port) :
       IF e = "ok"
         THEN /\ servers' = [servers EXCEPT ![s].state = "Bound"]
              /\ UNCHANGED unhandled
         ELSE /\ servers' = [servers EXCEPT ![s] = Fails(@, e)]
              /\ unhandled' = unhandled \cup {"start: " \o e}
  /\ UNCHANGED <<recentQueries, settings, vault, reqs, plugin, server, changes,
                 occupied, saved, ui, portCheck, unloads, edits>>

\* port onChange, from the top to the awaited listen (lines 134-172)
PortOnChange(rawValue) ==
  LET trimmed == TrimRaw(rawValue)
      parsed == parseInt(trimmed)
      portCandidate == IF parsed = NaN THEN Num(-1) ELSE parsed
      rangeError == validatePort(portCandidate)
      oldPort == settings.port
      oldServer == server
      closed == IF oldServer # 0
                  THEN [servers EXCEPT ![oldServer] = Close(@)] ELSE servers
      newServer == Len(servers) + 1
      \* the locals of the call, and for the record: what was bound, saved,
      \* received, buffered and stored when it was made
      call == [pc |-> "listen", portCandidate |-> portCandidate, oldPort |-> oldPort,
               oldServer |-> oldServer, newServer |-> newServer, outcome |-> "",
               err |-> "",
               boundPort |-> IF oldServer # 0 /\ servers[oldServer].state = "Bound"
                               THEN servers[oldServer].port ELSE NaN,
               oldSaved |-> saved,
               received |-> Cardinality({r \in Reqs : reqs[r].pc # "idle"}),
               buffer |-> recentQueries,
               doc |-> vault]
  IN
  /\ ui.settingTab
  /\ Len(changes) < MaxChanges
  /\ portCheck' = Append(portCheck, [port |-> portCandidate, result |-> rangeError])
  /\ IF rangeError # Null
       THEN /\ ui' = [ui EXCEPT !.portErrorEl = rangeError]
            /\ changes' = Append(changes,
                 [call EXCEPT !.pc = "done", !.newServer = 0, !.outcome = "invalid"])
            /\ UNCHANGED <<server, servers>>
       ELSE /\ ui' = [ui EXCEPT !.portErrorEl = ""]
            /\ server' = 0
            /\ servers' = Append(closed,
                 Listen(Unbound(portCandidate), portCandidate, TRUE, "resolve"))
            /\ changes' = Append(changes, call)
  /\ UNCHANGED <<recentQueries, settings, vault, reqs, plugin, occupied, saved,
                 unhandled, unloads, edits>>

\* the catch block (lines 182-207): report, close the new server, listen
\* again on the old one
Rollback(c, code, srvs) ==
  LET ch == changes[c]
      msg == IF code = "EADDRINUSE" THEN "settings.error.port_used"
             ELSE "settings.error.port_openfail"
      closedNew == [srvs EXCEPT ![ch.newServer] = Close(@)]
  IN
  /\ ui' = [ui EXCEPT !.portErrorEl = msg]
  /\ changes' = [changes EXCEPT ![c].pc = "done", ![c].outcome = "rollback",
                                ![c].err = code]
  /\ IF ch.oldServer = 0
       THEN /\ servers' = closedNew
            /\ UNCHANGED unhandled
     ELSE IF ListenThrows(ch.oldPort)
       THEN /\ servers' = closedNew
            /\ unhandled' = unhandled \cup {"onChange: ERR_SOCKET_BAD_PORT"}
     ELSE IF closedNew[ch.oldServer].state # "Unbound"
       THEN /\ servers' = closedNew
            /\ unhandled' = unhandled \cup {"onChange: ERR_SERVER_ALREADY_LISTEN"}
     ELSE /\ servers' = [closedNew EXCEPT ![ch.oldServer] =
                           Listen(@, ch.oldPort, FALSE, "revert")]
          /\ UNCHANGED unhandled

\* mutant: the new listener is bound but plugin.server is not set to it
NewListenSettles_KeepsReference(c) ==
  LET ch == changes[c] IN
  /\ c \in DOMAIN changes /\ ch.pc = "listen"
  /\ \E e \in ListenOutcomes(ch.portCandidate) :
       IF e = "ok"
         THEN /\ servers' = [servers EXCEPT ![ch.newServer].state = "Bound"]
              /\ UNCHANGED server
              /\ settings' = [settings EXCEPT !.port = ch.portCandidate]
              /\ changes' = [changes EXCEPT ![c].pc = "save"]
              /\ UNCHANGED <<ui, unhandled>>
         ELSE /\ Rollback(c, e, [servers EXCEPT ![ch.newServer] = Fails(@, e)])
              /\ UNCHANGED <<server, settings>>
  /\ UNCHANGED <<recentQueries, vault, reqs, plugin, occupied, saved, portCheck, unloads, edits>>

\* mutant: the handler of the new listener is given a buffer of its own
NewListenSettles_FreshBuffer(c) ==
  LET ch == changes[c] IN
  /\ c \in DOMAIN changes /\ ch.pc = "listen"
  /\ \E e \in ListenOutcomes(ch.portCandidate) :
       IF e = "ok"
         THEN /\ servers' = [servers EXCEPT ![ch.newServer].state = "Bound"]
              /\ server' = ch.newServer
              /\ settings' = [settings EXCEPT !.port = ch.portCandidate]
              /\ changes' = [changes EXCEPT ![c].pc = "save"]
              /\ recentQueries' = <<>>
              /\ UNCHANGED <<ui, unhandled>>
         ELSE /\ Rollback(c, e, [servers EXCEPT ![ch.newServer] = Fails(@, e)])
              /\ UNCHANGED <<server, settings, recentQueries>>
  /\ UNCHANGED <<vault, reqs, plugin, occupied, saved, portCheck, unloads, edits>>

\* the awaited listen of the new server settles (lines 168-176 or the catch)
NewListenSettles(c) ==
  LET ch == changes[c] IN
  /\ c \in DOMAIN changes /\ ch.pc = "listen"
  /\ \E e \in ListenOutcomes(ch.portCandidate) :
       IF e = "ok"
         THEN /\ servers' = [servers EXCEPT ![ch.newServer].state = "Bound"]
              /\ server' = ch.newServer
              /\ settings' = [settings EXCEPT !.port = ch.portCandidate]
              /\ changes' = [changes EXCEPT ![c].pc = "save"]
              /\ UNCHANGED <<ui, unhandled>>
         ELSE /\ Rollback(c, e, [servers EXCEPT ![ch.newServer] = Fails(@, e)])
              /\ UNCHANGED <<server, settings>>
  /\ UNCHANGED <<recentQueries, vault, reqs, plugin, occupied, saved, portCheck, unloads, edits>>

\* await this.plugin.saveSettings() settles (lines 176-181 or the catch)
SaveSettles(c) ==
  LET ch == changes[c] IN
  /\ c \in DOMAIN changes /\ ch.pc = "save"
  /\ \E io \in BOOLEAN :
       IF io
         THEN /\ saved' = ch.portCandidate
              /\ ui' = [ui EXCEPT !.portErrorEl = ""]
              /\ changes' = [changes EXCEPT ![c].pc = "done", ![c].outcome = "success"]
              /\ UNCHANGED <<servers, unhandled>>
         ELSE /\ Rollback(c, "saveData", servers)
              /\ UNCHANGED saved
  /\ UNCHANGED <<recentQueries, settings, vault, reqs, plugin, server, occupied,
                 portCheck, unloads, edits>>

\* oldServer.listen(oldPort, ...) of the catch block settles: the callback
\* sets plugin.server, or an error event that has no listener
RevertListenSettles(s) ==
  /\ s \in Binding /\ servers[s].callback = "revert"
  /\ \E e \in ListenOutcomes(servers[s].port) :
       IF e = "ok"
         THEN /\ servers' = [servers EXCEPT ![s].state = "Bound"]
              /\ server' = s
              /\ UNCHANGED unhandled
         ELSE /\ servers' = [servers EXCEPT ![s] = Fails(@, e)]
              /\ unhandled' = unhandled \cup {"revert: " \o e}
              /\ UNCHANGED server
  /\ UNCHANGED <<recentQueries, settings, vault, reqs, plugin, changes, occupied,
                 saved, ui, portCheck, unloads, edits>>

\* mutant: the listener is closed but the reference is kept
onunload_KeepsReference ==
  /\ plugin \in {"loaded", "aborted", "unloaded"}
  /\ Len(unloads) < MaxUnloads
  /\ unloads' = Append(unloads,
       [server |-> server,
        state |-> IF server = 0 THEN "none" ELSE servers[server].state])
  /\ plugin' = "unloaded"
  /\ ui' = [ui EXCEPT !.settingTab = FALSE]
  /\ IF server # 0
       THEN /\ servers' = [servers EXCEPT ![server] = Close(@)]
            /\ UNCHANGED server
       ELSE UNCHANGED <<server, servers>>
  /\ UNCHANGED <<recentQueries, settings, vault, reqs, changes, occupied, saved,
                 portCheck, unhandled, edits>>

\* main.ts: onunload()
onunload ==
  /\ plugin \in {"loaded", "aborted", "unloaded"}
  /\ Len(unloads) < MaxUnloads
  /\ unloads' = Append(unloads,
       [server |-> server,
        state |-> IF server = 0 THEN "none" ELSE servers[server].state])
  /\ plugin' = "unloaded"
  /\ ui' = [ui EXCEPT !.settingTab = FALSE]
  /\ IF server # 0
       THEN /\ servers' = [servers EXCEPT ![server] = Close(@)]
            /\ server' = 0
       ELSE UNCHANGED <<server, servers>>
  /\ UNCHANGED <<recentQueries, settings, vault, reqs, changes, occupied, saved,
                 portCheck, unhandled, edits>>

\* no start, port change or unload is in flight
Quiet ==
  /\ plugin \in {"loaded", "aborted", "unloaded"}
  /\ \A c \in DOMAIN changes : changes[c].pc = "done"
  /\ Binding = {}

InitBind ==
  /\ recentQueries = <<>>
  /\ \E port \in StoredPorts :
       settings = [logFileUserPref |-> SEARCH_LOG, port |-> port, prependMode |-> TRUE]
  /\ \E target \in {Absent, File(PriorContent)} :
       vault = [p \in Paths |-> IF p = LogPath THEN target ELSE Absent]
  /\ reqs = [r \in Reqs |-> IdleReq]
  /\ plugin = "enabled"
  /\ server = 0
  /\ servers = <<>>
  /\ changes = <<>>
  /\ occupied \in SUBSET OtherPorts
  /\ saved = settings.port
  /\ ui = [notices |-> {}, portErrorEl |-> "", fileErrorEl |-> "",
           settingTab |-> FALSE]
  /\ portCheck = <<>>
  /\ unhandled = {}
  /\ unloads = <<>>
  /\ edits = <<>>

BindReqs == 1..MaxBindReq

\* the search events sent while the listener is reconfigured
BindBodies == {b \in EventBodies : b.fields.query = "cats"}

\* a search event reaches the listener that is bound
Receive(r) ==
  /\ BoundServers # {}
  /\ \E body \in BindBodies : PostLog(r, body)
  /\ UNCHANGED bindVars

\* configuration operations are serialized
NextBind ==
  \/ OnLayoutReady
  \/ InitLogFileSettles
  \/ \E s \in DOMAIN servers : StartListenSettles(s)
  \/ \E rawValue \in RawPorts : Quiet /\ InFlight = {} /\ PortOnChange(rawValue)
  \/ \E c \in DOMAIN changes : NewListenSettles(c)
  \/ \E c \in DOMAIN changes : SaveSettles(c)
  \/ \E s \in DOMAIN servers : RevertListenSettles(s)
  \/ Quiet /\ InFlight = {} /\ onunload

SpecBind == InitBind /\ [][NextBind]_vars

\* a plugin loaded with the default settings, and search events arriving
\* between the configuration operations
InitSwap ==
  /\ InitBind
  /\ settings.port = Num(DEFAULT_PORT)
  /\ DEFAULT_PORT \notin occupied

NextSwap ==
  \/ NextBind
  \/ \E r \in BindReqs : Quiet /\ InFlight = {} /\ Receive(r)
  \/ \E r \in BindReqs : Step(r) /\ UNCHANGED bindVars

SpecSwap == InitSwap /\ [][NextSwap]_vars

\* ---------------------------------------------------------- validatePort
MaxChecks == 2

\* arguments of validatePort: integers around the limits, numbers with a
\* fractional part (v + 0.5), NaN
PortInputs ==
  {Num(v) : v \in {-1, 0, 1, 1023, 1024, 1025, DEFAULT_PORT, 65534, 65535, 65536}}
    \cup {Half(v) : v \in {0, 1023, 1024, 65535}} \cup {NaN}

\* validatePort(port) is called and its result kept
ValidatePortCall(port) ==
  /\ Len(portCheck) < MaxChecks
  /\ portCheck' = Append(portCheck, [port |-> port, result |-> validatePort(port)])
  /\ UNCHANGED <<recentQueries, settings, vault, reqs, plugin, server, servers,
                 changes, occupied, saved, ui, unhandled, unloads, edits>>

InitPort ==
  /\ Init
  /\ settings.logFileUserPref = SEARCH_LOG
  /\ settings.prependMode
  /\ vault[LogPath] = Absent

NextPort == \E port \in PortInputs : ValidatePortCall(port)

SpecPort == InitPort /\ [][NextPort]_vars

\* ------------------------------------------------- overlapping operations
\* the port field calls onChange on every edit and onunload may run at any
\* time after the start: nothing waits for a call that is at an await
InitOverlap ==
  /\ InitBind
  /\ settings.port = Num(DEFAULT_PORT)
  /\ vault[LogPath] = File(PriorContent)

NextOverlap ==
  \/ OnLayoutReady
  \/ \E s \in DOMAIN servers : StartListenSettles(s)
  \/ \E rawValue \in RawPorts : PortOnChange(rawValue)
  \/ \E c \in DOMAIN changes : NewListenSettles(c)
  \/ \E c \in DOMAIN changes : SaveSettles(c)
  \/ \E s \in DOMAIN servers : RevertListenSettles(s)
  \/ onunload

SpecOverlap == InitOverlap /\ [][NextOverlap]_vars

\* ------------------------------------------- name field and prepend toggle
\* values typed into the name field
RawNames ==
  {<<" ", "Notes", ".MD">>, <<" ">>, <<"dir", "/">>, <<"nodir", "/", "Log">>}

\* values of logFileUserPref found in the saved data at load
LivePrefs == {SEARCH_LOG, <<>>, <<"dir", "/">>}

\* the locals of a call of onChange, and for the record: what was stored,
\* received and in the vault when it was made
Edit(kind, pc, raw, computed, result, outcome) ==
  [kind |-> kind, pc |-> pc, raw |-> raw, computed |-> computed,
   result |-> result, outcome |-> outcome,
   oldPref |-> settings.logFileUserPref,
   oldPrepend |-> settings.prependMode,
   received |-> Cardinality({r \in Reqs : reqs[r].pc # "idle"}),
   doc |-> vault]

\* name onChange, from the top to the first pending await (lines 100-114)
NameOnChange(rawValue) ==
  LET computed == getLogFileNameFrom(rawValue)
      fileError == validateLogFileName(computed)
      pref == setLogFileName(rawValue)
      path == getLogFileNameFrom(pref)
  IN
  /\ ui.settingTab
  /\ Len(edits) < MaxEdits
  /\ IF fileError # Null
       THEN /\ ui' = [ui EXCEPT !.fileErrorEl = fileError]
            /\ edits' = Append(edits,
                 Edit("name", "done", rawValue, computed, fileError, "invalid"))
            /\ UNCHANGED settings
       ELSE /\ ui' = [ui EXCEPT !.fileErrorEl = ""]
            /\ settings' = [settings EXCEPT !.logFileUserPref = pref]
            /\ edits' = Append(edits,
                 Edit("name",
                      IF getAbstractFileByPath(path).kind = "absent"
                        THEN "init" ELSE "save",
                      rawValue, computed, fileError, ""))
  /\ UNCHANGED <<recentQueries, vault, reqs, plugin, server, servers, changes,
                 occupied, saved, portCheck, unhandled, unloads>>

\* await this.plugin.initLogFile(this.plugin.logFileName): the create settles
NameInitSettles(e) ==
  /\ e \in DOMAIN edits /\ edits[e].pc = "init"
  /\ \E io \in BOOLEAN :
       IF io /\ CanCreate(logFileName)
         THEN /\ vault' = [vault EXCEPT ![logFileName] = File(<<>>)]
              /\ ui' = [ui EXCEPT !.notices = @ \cup {"notice.newlog.saved"}]
              /\ edits' = [edits EXCEPT ![e].pc = "save"]
              /\ UNCHANGED unhandled
         ELSE /\ unhandled' = unhandled \cup {"name onChange: initLogFile"}
              /\ edits' = [edits EXCEPT ![e].pc = "done", ![e].outcome = "initfail"]
              /\ UNCHANGED <<vault, ui>>
  /\ UNCHANGED <<recentQueries, settings, reqs, plugin, server, servers, changes,
                 occupied, saved, portCheck, unloads>>

\* prepend toggle onChange up to the awaited saveSettings (lines 224-226)
PrependOnChange(value) ==
  /\ ui.settingTab
  /\ Len(edits) < MaxEdits
  /\ value # settings.prependMode
  /\ settings' = [settings EXCEPT !.prependMode = value]
  /\ edits' = Append(edits, Edit("toggle", "save", <<>>, <<>>, Null, ""))
  /\ UNCHANGED <<recentQueries, vault, reqs, plugin, server, servers, changes,
                 occupied, saved, ui, portCheck, unhandled, unloads>>

\* await this.plugin.saveSettings() of either onChange settles
EditSaveSettles(e) ==
  /\ e \in DOMAIN edits /\ edits[e].pc = "save"
  /\ \E io \in BOOLEAN :
       IF io
         THEN /\ edits' = [edits EXCEPT ![e].pc = "done", ![e].outcome = "success"]
              /\ UNCHANGED unhandled
         ELSE /\ edits' = [edits EXCEPT ![e].pc = "done", ![e].outcome = "savefail"]
              /\ unhandled' = unhandled \cup {"onChange: saveData"}
  /\ UNCHANGED <<recentQueries, settings, vault, reqs, plugin, server, servers,
                 changes, occupied, saved, ui, portCheck, unloads>>

\* the search events sent while the settings are edited: a new query each time
LiveQuery(r) == IF r % 2 = 1 THEN "cats" ELSE "dogs"
LiveBodies(r) == {b \in EventBodies : b.fields.query = LiveQuery(r)}

LiveReceive(r) ==
  /\ BoundServers # {}
  /\ \E body \in LiveBodies(r) : PostLog(r, body)
  /\ UNCHANGED bindVars

\* nothing is in flight: no start, edit or request
Idle ==
  /\ Quiet
  /\ InFlight = {}
  /\ \A e \in DOMAIN edits : edits[e].pc = "done"

InitLive ==
  /\ recentQueries = <<>>
  /\ \E pref \in LivePrefs :
       settings = [logFileUserPref |-> pref, port |-> Num(DEFAULT_PORT),
                   prependMode |-> TRUE]
  /\ vault = [p \in Paths |->
                IF p = LogPath THEN File(PriorContent)
                ELSE IF p \in {DirPath, FolderMdPath} THEN Folder
                ELSE Absent]
  /\ reqs = [r \in Reqs |-> IdleReq]
  /\ plugin = "enabled"
  /\ server = 0
  /\ servers = <<>>
  /\ changes = <<>>
  /\ occupied = {}
  /\ saved = settings.port
  /\ ui = [notices |-> {}, portErrorEl |-> "", fileErrorEl |-> "",
           settingTab |-> FALSE]
  /\ portCheck = <<>>
  /\ unhandled = {}
  /\ unloads = <<>>
  /\ edits = <<>>

\* edits of the settings and requests are serialized
NextLive ==
  \/ OnLayoutReady
  \/ InitLogFileSettles
  \/ \E s \in DOMAIN servers : StartListenSettles(s)
  \/ \E rawValue \in RawNames : Idle /\ NameOnChange(rawValue)
  \/ \E e \in DOMAIN edits : NameInitSettles(e)
  \/ \E value \in BOOLEAN : Idle /\ PrependOnChange(value)
  \/ \E e \in DOMAIN edits : EditSaveSettles(e)
  \/ \E r \in BindReqs : Idle /\ LiveReceive(r)
  \/ \E r \in BindReqs : Step(r) /\ UNCHANGED bindVars

SpecLive == InitLive /\ [][NextLive]_vars

\* ------------------------------------------------- target that is a folder
\* the stored name denotes a folder when the plugin loads; the user then
\* edits the name field
DropPref == <<"folder">>
DropNames == {<<"SearchLog">>, <<"Notes">>, <<"folder">>}

\* the search events sent meanwhile: the same searches again
DropBodies == {b \in EventBodies : b.fields.query \in {"cats", "dogs"}}

DropReceive(r) ==
  /\ BoundServers # {}
  /\ \E body \in DropBodies : PostLog(r, body)
  /\ UNCHANGED bindVars

InitDrop ==
  /\ recentQueries = <<>>
  /\ \E prepend \in BOOLEAN :
       settings = [logFileUserPref |-> DropPref, port |-> Num(DEFAULT_PORT),
                   prependMode |-> prepend]
  /\ vault = [p \in Paths |->
                IF p = LogPath THEN File(PriorContent)
                ELSE IF p \in {DirPath, FolderMdPath} THEN Folder
                ELSE Absent]
  /\ reqs = [r \in Reqs |-> IdleReq]
  /\ plugin = "enabled"
  /\ server = 0
  /\ servers = <<>>
  /\ changes = <<>>
  /\ occupied = {}
  /\ saved = settings.port
  /\ ui = [notices |-> {}, portErrorEl |-> "", fileErrorEl |-> "",
           settingTab |-> FALSE]
  /\ portCheck = <<>>
  /\ unhandled = {}
  /\ unloads = <<>>
  /\ edits = <<>>

NextDrop ==
  \/ OnLayoutReady
  \/ \E s \in DOMAIN servers : StartListenSettles(s)
  \/ \E rawValue \in DropNames : Idle /\ NameOnChange(rawValue)
  \/ \E e \in DOMAIN edits : NameInitSettles(e)
  \/ \E e \in DOMAIN edits : EditSaveSettles(e)
  \/ \E r \in BindReqs : Idle /\ DropReceive(r)
  \/ \E r \in BindReqs : Step(r) /\ UNCHANGED bindVars

SpecDrop == InitDrop /\ [][NextDrop]_vars

\* ----------------------------------------------------- validateLogFileName
\* arguments of validateLogFileName
NameInputs ==
  {<<>>, <<" ">>, <<"Notes", ".md">>, <<" ", "Notes", ".md", " ">>,
   <<"dir", "/">>, <<"dir", "/", "SearchLog", ".md">>, <<"dir">>,
   <<"SearchLog", ".md">>, <<".md">>, <<"SearchLog", ".md", "/", "x", ".md">>,
   <<"nodir", "/", "Log", ".md">>, <<"folder", ".md">>}

\* validateLogFileName(name) is called and its result kept
ValidateNameCall(name) ==
  /\ Len(edits) < MaxNameChecks
  /\ edits' = Append(edits,
       Edit("validate", "done", name, name, validateLogFileName(name), ""))
  /\ UNCHANGED <<recentQueries, settings, vault, reqs, plugin, server, servers,
                 changes, occupied, saved, ui, portCheck, unhandled, unloads>>

\* vaults in which the note and the folder "dir" are absent, a note or a folder
InitName ==
  /\ recentQueries = <<>>
  /\ settings = [logFileUserPref |-> SEARCH_LOG, port |-> Num(DEFAULT_PORT),
                 prependMode |-> TRUE]
  /\ Listening
  /\ \E target, dir \in {Absent, Folder, File(PriorContent)} :
       vault = [p \in Paths |->
                  IF p = LogPath THEN target
                  ELSE IF p = DirPath THEN dir
                  ELSE IF p = FolderMdPath THEN Folder
                  ELSE Absent]
  /\ reqs = [r \in Reqs |-> IdleReq]

NextName == \E name \in NameInputs : ValidateNameCall(name)

SpecName == InitName /\ [][NextName]_vars

\* ===================================================================== claims
Done(r) == reqs[r].pc = "done"
QueryOf(r) == reqs[r].body.fields.query
IsEvent(r) == reqs[r].body \in EventBodies
\* request r has not issued a vault operation yet (or is not sent at all)
NotYet(r) == r \notin Reqs \/ reqs[r].pc \in {"idle", "reading"}

\* the content of the log note, and the chunks of it that the handler wrote
LogContent == getAbstractFileByPath(logFileName).content
IsLogLine(c) == c \notin {PriorContent[i] : i \in DOMAIN PriorContent}
LogLines == SelectSeq(LogContent, IsLogLine)

\* r leaves "reading": the end callback runs its dedup check in this step
ChecksDedup(r) ==
  /\ reqs[r].pc = "reading"
  /\ reqs'[r].pc # "reading"
  /\ ~ParseThrows(reqs[r].body)

InBuffer(q) == \E i \in DOMAIN recentQueries : recentQueries[i] = q

\* C1: a POST /log whose query equals an entry of recentQueries when the
\* dedup check runs is answered 200 (once), issues no vault operation, and
\* leaves recentQueries and the vault as they were.
C1_DuplicateSuppressed ==
  [][\A r \in Reqs :
       (ChecksDedup(r) /\ InBuffer(Field(reqs[r].body, "query")))
         => /\ reqs'[r].pc = "done"
            /\ reqs'[r].status = 200
            /\ reqs'[r].ends = 1
            /\ reqs'[r].ops = <<>>
            /\ recentQueries' = recentQueries
            /\ vault' = vault]_vars

C1_Witness ==
  \E r \in Reqs :
    /\ reqs[r].via = "duplicate"
    /\ InBuffer(reqs[r].query)
    /\ reqs[r].status = 200

\* the store accepted the writes of requests 1..n: none was answered 400
\* (no vault operation threw) and none was dropped on a folder target
Written(n) ==
  \A i \in 1..n : Done(i) /\ reqs[i].status # 400 /\ ~reqs[i].warned

Distinct(n) ==
  \A i, j \in 1..n : i # j => QueryOf(i) # QueryOf(j)

\* C2: from an empty buffer, n <= 3 pairwise-distinct queries posted one after
\* another to a writable log note are each accepted (none answered as a
\* duplicate) and each commits one line; a following POST repeating one of
\* them is answered 200 as a duplicate and commits nothing.
C2_DedupWindow ==
  \A n \in 1..3 :
    (n < MaxSeq /\ Written(n) /\ Distinct(n))
      => /\ \A i \in 1..n : reqs[i].via = "ok" /\ reqs[i].status = 200
         /\ NotYet(n + 1) => Len(LogLines) = n
         /\ (Done(n + 1) /\ \E i \in 1..n : QueryOf(n + 1) = QueryOf(i))
              => /\ reqs[n + 1].via = "duplicate"
                 /\ reqs[n + 1].status = 200
                 /\ reqs[n + 1].ops = <<>>
                 /\ NotYet(n + 2) => Len(LogLines) = n

C2_Witness ==
  /\ Written(3) /\ Distinct(3)
  /\ Done(4) /\ QueryOf(4) = QueryOf(1)
  /\ reqs[4].via = "duplicate"
  /\ Len(LogLines) = 3

\* the number of lines in the log note written for query q
LinesFor(q) ==
  Len(SelectSeq(LogContent, LAMBDA c : IsLogLine(c) /\ c[4] = q))

\* C3: two POST /log requests carrying the same query (nothing else accepted
\* between them) commit exactly one line for that query, whatever the
\* interleaving of their steps at the awaited vault operations.
C3_OneLinePerQuery ==
  \A r1, r2 \in ConcReqs :
    (/\ r1 # r2
     /\ Done(r1) /\ Done(r2)
     /\ IsEvent(r1) /\ IsEvent(r2)
     /\ QueryOf(r1) = QueryOf(r2)
     /\ \A r \in {r1, r2} : reqs[r].status # 400 /\ ~reqs[r].warned)
      => LinesFor(QueryOf(r1)) = 1

\* C4: when the target is absent, the first accepted POST /log creates the
\* note with exactly its own line as content, in append and in prepend mode;
\* a second POST with the same query sent afterwards is answered 200 and the
\* note still holds that one line.
C4_CreateThenDuplicate ==
  \A r \in SeqReqs :
    (Done(r) /\ reqs[r].af = "absent" /\ reqs[r].status # 400)
      => /\ reqs[r].ops = <<"create">>
         /\ reqs[r].status = 200
         /\ NotYet(r + 1) => vault[reqs[r].effective] = File(<<Line(reqs[r].body)>>)
         /\ (r + 1 \in SeqReqs /\ Done(r + 1) /\ QueryOf(r + 1) = QueryOf(r))
              => /\ reqs[r + 1].status = 200
                 /\ reqs[r + 1].ops = <<>>
                 /\ NotYet(r + 2)
                      => vault[reqs[r].effective] = File(<<Line(reqs[r].body)>>)

C4_Witness ==
  /\ settings.prependMode
  /\ Done(1) /\ reqs[1].af = "absent" /\ reqs[1].status = 200
  /\ Done(2) /\ QueryOf(2) = QueryOf(1) /\ reqs[2].status = 200
  /\ NotYet(3)
  /\ Len(LogContent) = 1

\* requests 1..3 carried pairwise-distinct queries, were all answered, none
\* with 400 (no vault operation threw), and no later request has written
ThreeEvents ==
  /\ 3 \in SeqReqs
  /\ \A i \in 1..3 : Done(i) /\ reqs[i].status # 400
  /\ Distinct(3)
  /\ NotYet(4)

\* C5: in append mode, three events with pairwise-distinct queries posted one
\* after another to an existing note with content C leave it equal to
\* C + line(E1) + line(E2) + line(E3).
C5_AppendOrder ==
  (ThreeEvents /\ ~settings.prependMode /\ reqs[1].af = "file")
    => LogContent =
         reqs[1].seen \o <<Line(reqs[1].body), Line(reqs[2].body), Line(reqs[3].body)>>

C5_Witness ==
  /\ ThreeEvents /\ ~settings.prependMode /\ reqs[1].af = "file"
  /\ reqs[1].seen = PriorContent
  /\ Len(LogContent) = 4

\* C6: in prepend mode, three events with pairwise-distinct queries posted one
\* after another to a note that started empty or absent leave it equal to
\* line(E3) + line(E2) + line(E1); on an existing note with content C every
\* commit writes back newLine + oldContent, so C stays as the suffix.
C6_PrependOrder ==
  /\ (ThreeEvents /\ settings.prependMode /\ reqs[1].af \in {"absent", "file"})
       => LogContent =
            <<Line(reqs[3].body), Line(reqs[2].body), Line(reqs[1].body)>> \o reqs[1].seen
  /\ \A r \in SeqReqs :
       (Done(r) /\ reqs[r].ops = <<"read", "modify">> /\ reqs[r].status # 400
          /\ NotYet(r + 1))
         => LogContent = <<Line(reqs[r].body)>> \o reqs[r].seen

C6_Witness ==
  /\ ThreeEvents /\ settings.prependMode /\ reqs[1].af = "file"
  /\ reqs[1].seen = PriorContent
  /\ reqs[3].ops = <<"read", "modify">>
  /\ LogContent[1] = Line(reqs[3].body)
  /\ LogContent[4] = PriorContent[1]

\* C7: a POST /log whose body is not an event {query, url, timestamp}
\* (malformed JSON, or JSON without these fields) is answered 400, issues no
\* vault operation and is not recorded in recentQueries.
C7_MalformedRejected ==
  \A r \in ConcReqs :
    (/\ reqs[r].method = "POST" /\ reqs[r].url = "/log"
     /\ reqs[r].pc \notin {"idle", "reading"}
     /\ ~IsEvent(r))
      => /\ reqs[r].status = 400
         /\ reqs[r].ops = <<>>
         /\ ~InBuffer(Undefined)

\* C8: when the target path is a folder while a non-duplicate POST /log is
\* processed, no vault operation is issued, the vault is unchanged and the
\* request is answered 200.
C8_FolderDropped ==
  [][\A r \in Reqs :
       (/\ ChecksDedup(r)
        /\ ~InBuffer(Field(reqs[r].body, "query"))
        /\ getAbstractFileByPath(logFileName).kind = "folder")
         => /\ reqs'[r].pc = "done"
            /\ reqs'[r].status = 200
            /\ reqs'[r].ops = <<>>
            /\ vault' = vault]_vars

C8_Witness ==
  \E r \in Reqs :
    /\ reqs[r].af = "folder"
    /\ reqs[r].warned
    /\ reqs[r].status = 200
    /\ vault[reqs[r].effective] = Folder

\* C9: when a vault operation of a non-duplicate POST /log throws, the
\* request is answered 400 and recentQueries is left as it was, so a retry of
\* the same query sent right after is not answered as a duplicate.
C9_FailedWriteNotRecorded ==
  /\ [][\A r \in Reqs :
          (reqs[r].threw = "" /\ reqs'[r].threw # "")
            => /\ reqs'[r].status = 400
               /\ reqs'[r].pc = "done"
               /\ recentQueries' = recentQueries]_vars
  /\ [](\A r \in SeqReqs :
          (reqs[r].threw # "" /\ r + 1 \in SeqReqs /\ Done(r + 1)
             /\ QueryOf(r + 1) = QueryOf(r))
            => reqs[r + 1].via # "duplicate")

C9_Witness ==
  \E r \in SeqReqs :
    /\ r + 1 \in SeqReqs
    /\ reqs[r].threw = "create" /\ reqs[r].status = 400
    /\ getAbstractFileByPath(ParentPath(reqs[r].effective)).kind = "absent"
    /\ Done(r + 1) /\ QueryOf(r + 1) = QueryOf(r)
    /\ reqs[r + 1].threw = "create"

\* C10: a request that is not POST /log has no side effects: OPTIONS on any
\* path is answered 200 with the three CORS headers and its body is not read;
\* any other method/path is answered 404; recentQueries and the vault are
\* unchanged in both cases.
C10_OtherRequestsNoEffect ==
  [][\A r \in Reqs :
       (/\ reqs[r].pc = "idle" /\ reqs'[r].pc # "idle"
        /\ ~(reqs'[r].method = "POST" /\ reqs'[r].url = "/log"))
         => /\ reqs'[r].pc = "done"
            /\ reqs'[r].ends = 1
            /\ reqs'[r].body = NoBody
            /\ reqs'[r].ops = <<>>
            /\ recentQueries' = recentQueries
            /\ vault' = vault
            /\ IF reqs'[r].method = "OPTIONS"
                 THEN /\ reqs'[r].status = 200
                      /\ reqs'[r].headers =
                           {"Access-Control-Allow-Origin: *",
                            "Access-Control-Allow-Methods: POST, OPTIONS",
                            "Access-Control-Allow-Headers: Content-Type"}
                 ELSE reqs'[r].status = 404]_vars

C10_Witness ==
  \E r1, r2 \in Reqs :
    /\ reqs[r1].method = "OPTIONS" /\ reqs[r1].url = "/other" /\ reqs[r1].status = 200
    /\ reqs[r2].method = "POST" /\ reqs[r2].url = "/other" /\ reqs[r2].status = 404

\* C11: every response the handler sends, on every path (OPTIONS, duplicate,
\* accepted, folder drop, 400, 404), carries Access-Control-Allow-Origin: *.
C11_AllowOriginAlways ==
  \A r \in Reqs :
    reqs[r].ends > 0 => "Access-Control-Allow-Origin: *" \in reqs[r].headers

C11_Witness ==
  \E r1, r2 \in Reqs :
    /\ reqs[r1].status = 400 /\ reqs[r1].threw # ""
    /\ "Access-Control-Allow-Origin: *" \in reqs[r1].headers
    /\ reqs[r2].status = 404
    /\ "Access-Control-Allow-Origin: *" \in reqs[r2].headers

\* ------------------------------------------------------------------ rebind
\* the change c is the last configuration operation that was made
Last(c) == c = Len(changes) /\ unloads = <<>>

BindFailures == {"EADDRINUSE", "EACCES"}

\* C12: given a listener Bound on port P1 and no other configuration
\* operation in flight, a port change whose bind of the new port fails ends
\* (once the re-listen has settled without error) with the new listener torn
\* down, the old listener Bound again on P1, and plugin.server designating it.
C12_RollbackRestoresOld ==
  \A c \in DOMAIN changes :
    LET ch == changes[c] IN
    (/\ ch.outcome = "rollback" /\ ch.err \in BindFailures
     /\ ch.boundPort # NaN
     /\ Last(c) /\ Binding = {}
     /\ servers[ch.oldServer].lastError = "")
    => /\ servers[ch.newServer].state = "Unbound"
       /\ servers[ch.oldServer].state = "Bound"
       /\ servers[ch.oldServer].port = ch.boundPort
       /\ server = ch.oldServer

\* C12 holds for the calls that find settings.port equal to the port of the
\* bound listener
C12_WhenSettingsAgree ==
  \A c \in DOMAIN changes :
    LET ch == changes[c] IN
    (/\ ch.outcome = "rollback" /\ ch.err \in BindFailures
     /\ ch.boundPort # NaN /\ ch.oldPort = ch.boundPort
     /\ Last(c) /\ Binding = {}
     /\ servers[ch.oldServer].lastError = "")
    => /\ servers[ch.newServer].state = "Unbound"
       /\ servers[ch.oldServer].state = "Bound"
       /\ servers[ch.oldServer].port = ch.boundPort
       /\ server = ch.oldServer

\* C13: given a listener Bound on port P1, a port change to an available
\* valid port P2 ends with exactly one listener Bound, on P2, referenced by
\* plugin.server; the old listener is closed.
C13_RebindSuccess ==
  \A c \in DOMAIN changes :
    LET ch == changes[c] IN
    (ch.outcome = "success" /\ ch.boundPort # NaN /\ Last(c))
    => /\ BoundServers = {ch.newServer}
       /\ servers[ch.newServer].port = ch.portCandidate
       /\ server = ch.newServer
       /\ servers[ch.oldServer].state = "Unbound"

C13_Witness ==
  \E c \in DOMAIN changes :
    /\ changes[c].outcome = "success" /\ Last(c)
    /\ changes[c].boundPort = Num(DEFAULT_PORT)
    /\ changes[c].portCandidate = Num(8080)
    /\ server = changes[c].newServer
    /\ servers[server].state = "Bound"

\* C14: settings.port is changed and saved to the new port only after the
\* new listener is bound on it; after a port change that failed,
\* settings.port equals the previous port and the saved port is the one
\* saved before.
C14_AllOrNothing ==
  \A c \in DOMAIN changes :
    LET ch == changes[c] IN
    /\ ch.pc = "listen" => (settings.port = ch.oldPort /\ saved = ch.oldSaved)
    /\ ch.pc = "save" =>
         /\ servers[ch.newServer].state = "Bound"
         /\ servers[ch.newServer].port = settings.port
         /\ saved = ch.oldSaved
    /\ (ch.pc = "done" /\ ch.outcome # "success" /\ Last(c)) =>
         (settings.port = ch.oldPort /\ saved = ch.oldSaved)

\* C15: every bind failure (at plugin load, of the new listener of a port
\* change, of the re-listen during rollback) is caught and reported to the
\* caller, classified as address-in-use or as another bind failure; none is
\* left as an unhandled listener error, and the listener that failed is Unbound.
C15_BindFailuresReported ==
  /\ \A s \in DOMAIN servers :
       servers[s].lastError # "" =>
         (servers[s].state = "Unbound" /\ servers[s].onError)
  /\ unhandled = {}
  /\ \A c \in DOMAIN changes :
       (changes[c].err \in BindFailures /\ Last(c)) =>
         ui.portErrorEl = IF changes[c].err = "EADDRINUSE"
                            THEN "settings.error.port_used"
                            ELSE "settings.error.port_openfail"

\* an integer in 1024..65535
PortValid(p) == p.kind = "int" /\ p.v >= 1024 /\ p.v <= 65535

\* C16: a port that fails validation never reaches a bind attempt: no listen
\* is ever called with it (at load or on a port change), and a port change
\* with such a value leaves the active listener, plugin.server and
\* settings.port unchanged.
C16_InvalidPortNeverBound ==
  /\ \A s \in DOMAIN servers : PortValid(servers[s].port)
  /\ \A c \in DOMAIN changes :
       LET ch == changes[c] IN
       ch.outcome = "invalid" =>
         /\ ch.newServer = 0
         /\ Last(c) =>
              /\ server = ch.oldServer
              /\ settings.port = ch.oldPort
              /\ ch.boundPort # NaN =>
                   (servers[server].state = "Bound" /\ servers[server].port = ch.boundPort)

\* C17: validatePort returns an error for 0, 1023, 65536 and every
\* non-integer, null for 1024 and 65535, and in general null exactly for the
\* integers p with 1024 <= p <= 65535.
C17_ValidatePort ==
  \A k \in DOMAIN portCheck :
    LET p == portCheck[k].port
        result == portCheck[k].result
    IN /\ (result = Null) <=> PortValid(p)
       /\ p \in {Num(0), Num(1023), Num(65536)} => result = "settings.error.port_out_range"
       /\ p.kind # "int" => result = "settings.error.port_is_int"
       /\ p \in {Num(1024), Num(65535)} => result = Null

C17_Witness ==
  \E j, k \in DOMAIN portCheck :
    /\ portCheck[j].port = Num(65535) /\ portCheck[j].result = Null
    /\ portCheck[k].port = Num(65536) /\ portCheck[k].result # Null

\* C18: with start, port change and unload serialized, at most one listener
\* is bound in every reachable state.
C18_AtMostOneBound == Cardinality(BoundServers) <= 1

C18_Witness ==
  \E c1, c2 \in DOMAIN changes :
    /\ changes[c1].outcome = "success" /\ changes[c1].boundPort # NaN
    /\ changes[c2].outcome = "rollback" /\ changes[c2].boundPort # NaN
    /\ servers[changes[c2].oldServer].state = "Bound"
    /\ servers[changes[c2].newServer].state = "Unbound"
    /\ Cardinality(BoundServers) = 1

\* C19: onunload with a Bound listener closes it and clears plugin.server;
\* onunload with a null reference changes nothing; neither raises an error.
C19_Teardown ==
  [][Len(unloads') > Len(unloads) =>
       /\ server' = 0
       /\ server # 0 => servers'[server].state = "Unbound"
       /\ server = 0 => servers' = servers
       /\ unhandled' = unhandled]_vars

C19_Witness ==
  \E u1, u2 \in DOMAIN unloads :
    /\ unloads[u1].state = "Bound"
    /\ unloads[u2].server = 0
    /\ server = 0
    /\ BoundServers = {}

\* number of requests the listeners have received
Received == Cardinality({r \in Reqs : reqs[r].pc # "idle"})

\* C20: a port change, successful or rolled back, leaves recentQueries and
\* the vault unchanged, and a query that was in recentQueries at the port
\* change is suppressed on the first request after it.
C20_SwapKeepsBuffer ==
  \A c \in DOMAIN changes :
    LET ch == changes[c]
        r == ch.received + 1
    IN /\ (c = Len(changes) /\ Received = ch.received) =>
            (recentQueries = ch.buffer /\ vault = ch.doc)
       /\ (/\ ch.outcome \in {"success", "rollback"}
           /\ r \in Reqs /\ reqs[r].pc = "done"
           /\ \E i \in DOMAIN ch.buffer : ch.buffer[i] = reqs[r].query)
          => (reqs[r].via = "duplicate" /\ reqs[r].status = 200 /\ reqs[r].ops = <<>>)

C20_Witness ==
  \E c1, c2 \in DOMAIN changes :
    /\ changes[c1].outcome = "success" /\ changes[c1].buffer = <<"cats">>
    /\ changes[c2].outcome = "rollback" /\ changes[c2].received = 1
    /\ reqs[2].via = "duplicate" /\ reqs[2].query = "cats"
    /\ recentQueries = <<"cats">>

\* ----------------------------------------------------- handler, continued
\* r1 and r2 both went through read and modify, and read the same content
ReadSame(r1, r2) ==
  /\ reqs[r1].ops = <<"read", "modify">>
  /\ reqs[r2].ops = <<"read", "modify">>
  /\ Tail(reqs[r1].newContent) = Tail(reqs[r2].newContent)

\* C24: in prepend mode with an existing note, when two POST /log requests
\* with distinct queries both read the same old content and both are answered
\* 200, the note ends as the content one of them wrote and holds the line of
\* only one of them; such an interleaving is reachable.
C24_PrependLostUpdate ==
  \A r1, r2 \in ConcReqs :
    (/\ r1 # r2
     /\ Done(r1) /\ Done(r2)
     /\ IsEvent(r1) /\ IsEvent(r2)
     /\ QueryOf(r1) # QueryOf(r2)
     /\ reqs[r1].status = 200 /\ reqs[r2].status = 200
     /\ ReadSame(r1, r2)
     /\ \A r \in ConcReqs \ {r1, r2} : NotYet(r))
    => /\ LogContent \in {reqs[r1].newContent, reqs[r2].newContent}
       /\ LinesFor(QueryOf(r1)) + LinesFor(QueryOf(r2)) = 1

C24_Witness ==
  \E r1, r2 \in ConcReqs :
    /\ r1 # r2 /\ Done(r1) /\ Done(r2)
    /\ QueryOf(r1) # QueryOf(r2)
    /\ reqs[r1].status = 200 /\ reqs[r2].status = 200
    /\ ReadSame(r1, r2)
    /\ reqs[r1].seen = PriorContent
    /\ LogContent = reqs[r2].newContent
    /\ LinesFor(QueryOf(r1)) = 0

\* C25: recentQueries holds at most 3 entries in every state; it changes
\* only in the step that accepts an event, which appends the query and,
\* when the buffer was full, drops exactly the oldest entry.
C25_BufferBounded ==
  [][/\ Len(recentQueries) <= 3
     /\ Len(recentQueries') <= 3
     /\ \A r \in Reqs :
          (reqs[r].pc # "done" /\ reqs'[r].pc = "done" /\ reqs'[r].via = "ok")
            => recentQueries' =
                 IF Len(recentQueries) = 3
                   THEN Tail(recentQueries) \o <<reqs'[r].query>>
                   ELSE Append(recentQueries, reqs'[r].query)
     /\ recentQueries' # recentQueries =>
          \E r \in Reqs :
            reqs[r].pc # "done" /\ reqs'[r].pc = "done" /\ reqs'[r].via = "ok"]_vars

C25_Witness ==
  /\ recentQueries = <<"fish", "dogs", "cats">>
  /\ \E r \in Reqs : reqs[r].via = "ok" /\ reqs[r].query = "cats"

\* r awaits a vault operation
Pending(r) == reqs[r].pc \in {"create", "read", "modify", "append"}

\* C26: for an accepted event the query is recorded in recentQueries before
\* the create / append / read-modify operation for it is issued.
C26_RecordBeforeCommit ==
  \A r \in Reqs : Pending(r) => InBuffer(reqs[r].query)

\* C27: the 200 answer to a non-duplicate POST /log is sent only after its
\* vault operation has completed; while the operation is pending the
\* request has no answer.
C27_RespondAfterCommit ==
  [][\A r \in Reqs :
       /\ Pending(r) => (reqs[r].ends = 0 /\ reqs[r].status = 0)
       /\ Pending(r)' => (reqs'[r].ends = 0 /\ reqs'[r].status = 0)
       /\ (reqs[r].ends = 0 /\ reqs'[r].ends > 0
             /\ reqs'[r].via = "ok" /\ ~reqs'[r].warned)
          => /\ reqs[r].pc \in {"create", "modify", "append"}
             /\ reqs[r].ops[Len(reqs[r].ops)] = reqs[r].pc
             /\ \E i \in DOMAIN vault'[reqs[r].effective].content :
                  vault'[reqs[r].effective].content[i] = reqs[r].line]_vars

C27_Witness ==
  \E r1, r2 \in Reqs :
    /\ reqs[r1].via = "ok" /\ reqs[r1].ops = <<"read", "modify">>
    /\ reqs[r1].ends = 1
    /\ Pending(r2) /\ reqs[r2].ends = 0

\* C28: recentQueries never holds the same query twice.
C28_BufferDistinct ==
  \A i, j \in DOMAIN recentQueries :
    i # j => recentQueries[i] # recentQueries[j]

\* C29: when the target is absent and two POST /log requests with distinct
\* queries both find it absent (the second checks before the create of the
\* first has completed), both are answered 200 and the note holds both lines.
C29_BothCreatesCommit ==
  \A r1, r2 \in ConcReqs :
    (/\ r1 # r2
     /\ Done(r1) /\ Done(r2)
     /\ IsEvent(r1) /\ IsEvent(r2)
     /\ QueryOf(r1) # QueryOf(r2)
     /\ reqs[r1].af = "absent" /\ reqs[r2].af = "absent")
    => /\ reqs[r1].status = 200 /\ reqs[r2].status = 200
       /\ LinesFor(QueryOf(r1)) = 1 /\ LinesFor(QueryOf(r2)) = 1

\* what happens instead: of two requests that both found the target absent,
\* at most one create succeeds; the other throws and is answered 400
C29_SecondCreateThrows ==
  \A r1, r2 \in ConcReqs :
    (/\ r1 # r2
     /\ Done(r1) /\ Done(r2)
     /\ reqs[r1].af = "absent" /\ reqs[r2].af = "absent"
     /\ reqs[r1].status = 200)
    => (reqs[r2].status = 400 /\ reqs[r2].threw = "create")

\* C30: every request gets at most one answer (status written once, ended
\* once) on every path, and exactly one once its handling is over; the
\* duplicate path ends the response once.
C30_OneResponse ==
  \A r \in Reqs :
    /\ reqs[r].ends <= 1
    /\ Done(r) <=> reqs[r].ends = 1
    /\ Done(r) => reqs[r].status \in {200, 400, 404}
    /\ ~Done(r) => reqs[r].status = 0
    /\ reqs[r].via = "duplicate" => reqs[r].ends = 1

C30_Witness ==
  \E r1, r2 \in Reqs :
    /\ reqs[r1].via = "ok" /\ reqs[r1].ops # <<>> /\ reqs[r1].ends = 1
    /\ reqs[r2].via = "duplicate" /\ reqs[r2].ends = 1

\* ------------------------------------------------ name and mode, live
\* the settings in force once edit e has been made
PrefAfter(e) ==
  IF e < Len(edits) THEN edits[e + 1].oldPref ELSE settings.logFileUserPref
PrependAfter(e) ==
  IF e < Len(edits) THEN edits[e + 1].oldPrepend ELSE settings.prependMode

\* request r is the first one received after edit e and before the next edit
FirstAfter(e, r) ==
  /\ r = edits[e].received + 1
  /\ r \in Reqs
  /\ Done(r)
  /\ e < Len(edits) => edits[e + 1].received >= r

\* C21: after the prepend toggle or the note name is changed, the next
\* POST /log is committed by the running listener according to the new mode
\* and to the new target; the edit itself leaves the listener, the buffer
\* and every existing note as they are.
C21_LiveReconfiguration ==
  /\ [][edits' # edits =>
          /\ server' = server /\ servers' = servers
          /\ reqs' = reqs /\ recentQueries' = recentQueries
          /\ \A p \in Paths : vault[p].kind = "file" => vault'[p] = vault[p]]_vars
  /\ [](\A e \in DOMAIN edits : \A r \in Reqs :
          (edits[e].pc = "done" /\ FirstAfter(e, r) /\ reqs[r].via = "ok")
            => /\ reqs[r].effective = getLogFileNameFrom(PrefAfter(e))
               /\ reqs[r].af = "absent" => reqs[r].ops = <<"create">>
               /\ reqs[r].af = "file" =>
                    reqs[r].ops = IF PrependAfter(e) THEN <<"read", "modify">>
                                  ELSE <<"append">>
               /\ Received = r =>
                    LET content == vault[reqs[r].effective].content IN
                    /\ content # <<>>
                    /\ IF reqs[r].ops = <<"append">>
                         THEN content[Len(content)] = reqs[r].line
                         ELSE content[1] = reqs[r].line)

C21_Witness ==
  /\ Len(edits) = 2
  /\ \E e1, e2 \in DOMAIN edits :
       /\ edits[e1].kind = "toggle" /\ edits[e1].outcome = "success"
       /\ edits[e2].kind = "name" /\ edits[e2].outcome = "success"
       /\ edits[e1].received = 1 /\ edits[e2].received = 1
  /\ reqs[1].effective = LogPath /\ reqs[1].ops = <<"read", "modify">>
  /\ reqs[2].effective = NotesPath /\ reqs[2].ops = <<"append">>
  /\ reqs[2].status = 200
  /\ vault[LogPath].content = <<reqs[1].line>> \o PriorContent
  /\ vault[NotesPath].content = <<reqs[2].line>>
  /\ server = 1 /\ servers[1].state = "Bound" /\ Len(servers) = 1

\* what was at path p in the vault d
KindIn(d, p) == IF p \in DOMAIN d THEN d[p].kind ELSE "absent"

\* C22: validateLogFileName(name) returns an error exactly when the trimmed
\* name is empty, ends with "/", has a parent path that is absent or not a
\* folder, or denotes an existing folder; it leaves the vault as it is.
C22_ValidateLogFileName ==
  \A e \in DOMAIN edits :
    edits[e].kind = "validate" =>
      LET trimmed == Trim(edits[e].raw)
          doc == edits[e].doc
      IN /\ (edits[e].result # Null) <=>
              \/ trimmed = <<>>
              \/ trimmed[Len(trimmed)] = "/"
              \/ HasParent(trimmed) /\ KindIn(doc, ParentPath(trimmed)) # "folder"
              \/ KindIn(doc, trimmed) = "folder"
         /\ vault = doc

C22_Witness ==
  \E e1, e2 \in DOMAIN edits :
    /\ edits[e1].raw = <<"folder", ".md">>
    /\ edits[e1].result = "settings.error.note.name.rule3"
    /\ edits[e2].raw = <<"dir", "/", "SearchLog", ".md">>
    /\ edits[e2].result = Null
    /\ vault[DirPath] = Folder

\* a name that is empty, only white space, or ends with "/"
BadName(name) ==
  LET trimmed == Trim(name) IN trimmed = <<>> \/ trimmed[Len(trimmed)] = "/"

NameErrors == {"settings.error.note.name.rule1", "settings.error.note.name.rule2"}

\* C23: a note name that is empty, only white space, or ends with "/" is
\* rejected by the name onChange and by the check at plugin load: an error
\* is reported, logFileUserPref is left unchanged, no note is created for it.
C23_BadNameRejected ==
  /\ \A e \in DOMAIN edits :
       (edits[e].kind = "name" /\ BadName(edits[e].raw)) =>
         /\ edits[e].result \in NameErrors
         /\ edits[e].outcome = "invalid"
         /\ e = Len(edits) => settings.logFileUserPref = edits[e].oldPref
         /\ (e = Len(edits) /\ Received = edits[e].received) => vault = edits[e].doc
  /\ (plugin # "enabled" /\ edits = <<>> /\ BadName(settings.logFileUserPref)) =>
         /\ ui.notices \cap NameErrors # {}
         /\ plugin # "initLogFile"
         /\ vault[logFileName].kind = "absent"

\* ------------------------------------------------ reference and listener
\* C33: whenever no start, port change or unload is in flight, plugin.server
\* is non-null exactly when a listener is bound, and that listener is the one
\* referenced and is bound on settings.port.
C33_ReferenceIffBound ==
  Quiet =>
    /\ (server # 0) <=> (BoundServers # {})
    /\ \A s \in BoundServers : s = server /\ servers[s].port = settings.port

\* C35: after the name onChange accepted a raw name, the path the plugin
\* uses (the logFileName getter) is the path that was validated,
\* getLogFileNameFrom(raw).
C35_UsedPathIsValidated ==
  \A e \in DOMAIN edits :
    (edits[e].kind = "name" /\ edits[e].result = Null /\ e = Len(edits))
      => /\ edits[e].computed = getLogFileNameFrom(edits[e].raw)
         /\ logFileName = edits[e].computed

\* C36: when the onLayoutReady callback of onload has ended, whatever the
\* outcome of the validation and of initLogFile, the settings tab is
\* registered and a listen on settings.port was attempted.
C36_LoadReachesListen ==
  (plugin \in {"loaded", "aborted"} /\ unloads = <<>>) =>
    /\ ui.settingTab
    /\ servers # <<>>
    /\ portCheck # <<>>
    /\ servers[1].port = portCheck[1].port

\* ------------------------------------------------ overlapping operations
\* C31: once onunload has run, no listener created by the plugin is bound,
\* and none becomes bound later, also when onunload ran while a port change
\* was in flight.
C31_NoListenerAfterUnload ==
  unloads # <<>> => BoundServers = {}

\* C32: once all port changes have completed, overlapping ones included, at
\* most one listener is bound, it is the one plugin.server references and it
\* is bound on settings.port.
C32_OneReferencedListener ==
  (changes # <<>> /\ Quiet /\ unloads = <<>>) =>
    /\ Cardinality(BoundServers) <= 1
    /\ \A s \in BoundServers : s = server /\ servers[s].port = settings.port

\* ------------------------------------------------ dropped and recorded
\* the line of request r is in some note
Logged(r) ==
  \E p \in Paths : \E i \in DOMAIN vault[p].content :
    vault[p].content[i] = Line(reqs[r].body)

\* C34: an event dropped because the target is a folder is recorded in
\* recentQueries; a POST with the same query within the dedup window is
\* answered as a duplicate (200, no vault operation) even if the target has
\* become writable meanwhile, and the query is logged by neither request.
C34_DroppedStillRecorded ==
  \A r1 \in Reqs :
    reqs[r1].warned =>
      /\ Received = r1 => InBuffer(reqs[r1].query)
      /\ \A r2 \in Reqs :
           (r1 < r2 /\ r2 - r1 <= MAX_RECENT /\ Done(r2)
              /\ Field(reqs[r2].body, "query") = reqs[r1].query)
             => /\ reqs[r2].via = "duplicate"
                /\ reqs[r2].status = 200
                /\ reqs[r2].ops = <<>>
                /\ ~Logged(r1) /\ ~Logged(r2)

C34_Witness ==
  \E e \in DOMAIN edits :
    /\ reqs[1].warned /\ reqs[1].af = "folder"
    /\ edits[e].kind = "name" /\ edits[e].outcome = "success"
    /\ edits[e].received = 1
    /\ Done(2) /\ reqs[2].query = reqs[1].query
    /\ reqs[2].via = "duplicate"
    /\ vault[logFileName] = File(PriorContent)
    /\ recentQueries = <<reqs[1].query>>

====
